---- MODULE Spec2Model ----
(***************************************************************************)
(* Model of the collection engine of src/data_collection.py:               *)
(*   - read_zipcode_file: the batch slice of a state's zip-code list;      *)
(*   - run_collection: the nested drug x zip loop with its checkpoint,     *)
(*     output file and consecutive-failure auto-stop;                      *)
(*   - make_api_request: the per-unit retry loop with token refresh.       *)
(* File-system writes that return are taken to have succeeded; a user      *)
(* interrupt may hit between any two steps and inside save_progress.       *)
(***************************************************************************)
EXTENDS Integers, Sequences, FiniteSets, TLC

\* ---------------------------------------------------------------- bounds
\* longest zip-code file of the partitioning specification
MaxListLen == 10
\* largest total_batches of the partitioning specification
MaxBatches == 4
\* catalog rows of the runs of Spec
MaxDrugs == 2
\* catalog rows of the runs of SpecBreaker
BreakerDrugs == 6
\* number of usable (truthy) 200 responses the server gives in one behaviour
MaxOk == 1

\* ------------------------------------------------------ program constants
max_retries == 3
max_consecutive_failures == 10
\* sleeps in tenths of a second: request_delay 0.4 s, retry_delay 2.0 s
request_delay == 4
retry_delay == 20

\* largest total_batches of the concurrent collectors
MaxConcBatches == 2

\* the documented limits of the API: requests per hour, requests per second
hourly_limit == 10000
per_second_limit == 20

\* largest value of --batch and --total-batches
MaxBatchArg == 2

\* ------------------------------------------------------------- variables
VARIABLES
    \* configuration and input files (fixed during a behaviour)
    test_mode, batch_info, csvRows, uuid_cache, zipFile, geocodable, server,
    \* command line, catalog file, environment of the shell, grab_token.sh
    args, csv_exists, shellEnv, script,
    \* partitioning specification: results of read_zipcode_file per batch
    slices, batches,
    \* concurrency specification: the collector processes and the checkpoint
    \* files of the results directory
    collectors, progress_files,
    \* persistent files
    file, csv,
    \* collector object
    token, headers_token, memberUuid, environ, failed_combinations,
    consecutive_failures, auto_stop_triggered,
    \* locals of run_collection
    pc, drugs, zip_codes, progress, processed_count, drug_idx, zip_idx,
    \* locals of make_api_request
    params, attempt, token_refreshed_this_request, api_response,
    \* history of the behaviour (not program state)
    okLeft, loaded, requested, returned, withPharmacies, httpCount,
    refreshCalls,
    lastOutcome, lastRefresh, lastScript, lastSleep, allRateLimited, waited

inputVars == <<test_mode, csvRows, uuid_cache, zipFile, geocodable, server,
               args, csv_exists, shellEnv, script>>
configVars == <<inputVars, batch_info>>
concVars == <<collectors, progress_files>>
partVars == <<slices, batches, concVars>>
fileVars == <<file, csv>>
credVars == <<token, headers_token, memberUuid, environ>>
breakerVars == <<failed_combinations, consecutive_failures, auto_stop_triggered>>
loopVars == <<drugs, zip_codes, progress, processed_count, drug_idx, zip_idx>>
callVars == <<params, attempt, token_refreshed_this_request, api_response>>
callHist == <<httpCount, refreshCalls, lastOutcome, lastRefresh, lastScript,
              lastSleep, allRateLimited>>
runHist == <<okLeft, loaded, requested, returned, withPharmacies>>

vars == <<configVars, partVars, fileVars, credVars, breakerVars, pc, loopVars,
          callVars, callHist, runHist, waited>>

\* ------------------------------------------------------ read_zipcode_file
NoBatch == [batch_num |-> 0, total_batches |-> 0]

Min(a, b) == IF a <= b THEN a ELSE b

\* Python's s[a:b] for 0 <= a, 0 <= b
PySlice(s, a, b) == SubSeq(s, a + 1, Min(b, Len(s)))

\* start_idx as the branch at lines 213-217 computes it
StartIdxWrong(total_zips, batch_num, total_batches) ==
    (batch_num - 1) * (total_zips \div total_batches) + (total_zips % total_batches)

StartIdx(total_zips, batch_num, total_batches) ==
    LET batch_size == total_zips \div total_batches
        remainder == total_zips % total_batches
        base_start == (batch_num - 1) * batch_size
    IN  IF batch_num <= remainder
        THEN base_start + (batch_num - 1)
        ELSE base_start + remainder

CurrentBatchSizeWrong(total_zips, batch_num, total_batches) ==
    (total_zips \div total_batches)
        + (IF batch_num < total_zips % total_batches THEN 1 ELSE 0)

CurrentBatchSize(total_zips, batch_num, total_batches) ==
    (total_zips \div total_batches)
        + (IF batch_num <= total_zips % total_batches THEN 1 ELSE 0)

\* the list after the batch filter of lines 203-225
BatchSlice(zipcodes, bi) ==
    IF bi.batch_num # 0 /\ bi.total_batches # 0
    THEN LET start_idx == StartIdx(Len(zipcodes), bi.batch_num, bi.total_batches)
             end_idx == start_idx
                 + CurrentBatchSize(Len(zipcodes), bi.batch_num, bi.total_batches)
         IN  PySlice(zipcodes, start_idx, end_idx)
    ELSE zipcodes

\* the list read_zipcode_file returns
ReadZipcodeFile(zipcodes, bi, tm) ==
    IF tm THEN PySlice(BatchSlice(zipcodes, bi), 0, 2) ELSE BatchSlice(zipcodes, bi)

\* ---------------------------------------------------------- input loading
Range(s) == {s[i] : i \in 1..Len(s)}

\* uuid_cache.json: the codes with an identifier and the codes whose entry
\* is the empty string
UuidCache(identified, empty) ==
    [code \in identified \cup empty |-> IF code \in identified THEN "uuid" ELSE ""]

\* self.uuid_cache.get(procedure_code)
CacheGet(cache, code) == IF code \in DOMAIN cache THEN cache[code] ELSE "None"

\* the rows load_drugs_from_excel iterates over: df.head(10) in test mode
RowsRead(rows, tm) == IF tm THEN PySlice(rows, 0, 10) ELSE rows

LoadDrugsKeepingAll(rows, cache, tm) ==
    RowsRead(rows, tm)

\* the rows read, without those that "if not care_uuid: continue" skips; a
\* drug is represented by its procedure code
LoadDrugsFromExcel(rows, cache, tm) ==
    LET HasUuid(code) == CacheGet(cache, code) \notin {"None", ""}
    IN  SelectSeq(RowsRead(rows, tm), HasUuid)

\* one state file: the batch of its zip codes, then those that geocode
GetZipCodesWithCoordinates(zipcodes, bi, tm, geo) ==
    LET Geocodes(z) == z \in geo
    IN  SelectSeq(ReadZipcodeFile(zipcodes, bi, tm), Geocodes)

CombinationKey(procedure_code, zip) == procedure_code \o "_" \o zip

\* ------------------------------------------------------------ checkpoint
\* kind: "absent" (no file), "unparseable" (not JSON), "notobj" (JSON, not
\* an object), "nolist" (object without 'completed'), "ok"
Checkpoint(kind, completed, total) ==
    [kind |-> kind, completed |-> completed, total_processed |-> total]

NoFile == Checkpoint("absent", <<>>, 0)
PartialFile == Checkpoint("unparseable", <<>>, 0)
DefaultProgress == Checkpoint("ok", <<>>, 0)

LoadProgress(f) ==
    IF f.kind \in {"absent", "unparseable"} THEN DefaultProgress ELSE f

\* progress.get('completed', [])
CompletedOf(p) == IF p.kind = "ok" THEN p.completed ELSE <<>>

\* ------------------------------------------------------ make_api_request
\* status 200 with its body; 401, 403, 429; a success status other than 200
\* (s2xx) and any other status (err), with a text that names a token problem
\* (err_auth) or not; status 200 with a body that is not JSON
\* (ok_unparseable) or that the JSON parser gives up on (ok_parser_fails); a
\* timeout; other request exceptions. The bodies of a 200: {} (empty_body),
\* an object without 'pharmacies' (no_list), with an empty list (list0), with
\* a list of one pharmacy (list1), and with a list of one pharmacy whose
\* 'address' or 'careEstimateResult' is null (null_field)
OkBodies == {"ok_empty_body", "ok_no_list", "ok_list0", "ok_list1",
             "ok_null_field"}
AllOutcomes == OkBodies \cup {"s401", "s403", "s429", "s2xx", "err_auth", "err",
                              "ok_unparseable", "ok_parser_fails", "timeout",
                              "exc_auth", "exc"}

\* output of grab_token.sh as refresh_token parses it: the TOKEN= and
\* MEMBERUUID= lines it holds (token_empty: a TOKEN= line with nothing after
\* it and a MEMBERUUID= line with a value), or the script exits non-zero
ScriptOutputs == {"both", "token_only", "member_only", "neither", "token_empty",
                  "script_fails"}

\* Python truthiness of a string or None
PyTrue(v) == v \notin {"None", ""}

\* new_token and new_member_uuid after the loop of lines 498-502
TokenLine(out) ==
    CASE out \in {"both", "token_only"} -> "value"
      [] out = "token_empty" -> ""
      [] OTHER -> "None"

MemberLine(out) ==
    IF out \in {"both", "member_only", "token_empty"} THEN "value" ELSE "None"

\* refresh_token's return value (lines 504-526)
RefreshSucceedsOnToken(out) == PyTrue(TokenLine(out))

RefreshSucceeds(out) == PyTrue(TokenLine(out)) /\ PyTrue(MemberLine(out))

OtherToken(t) == IF t = "tok0" THEN "tok1" ELSE "tok0"
OtherMember(m) == IF m = "mem0" THEN "mem1" ELSE "mem0"

\* os.environ: the texts of TOKEN and MEMBERUUID as sequences of pieces, the
\* empty sequence when the variable is unset or empty
Env(t, m) == [TOKEN |-> t, MEMBERUUID |-> m]

\* the credentials after refresh_token (lines 504-515)
RefreshToken(c, out) ==
    IF RefreshSucceeds(out)
    THEN LET new_token == OtherToken(c.token)
             new_member_uuid == OtherMember(c.memberUuid)
         IN  [token |-> new_token, headers_token |-> new_token,
              memberUuid |-> new_member_uuid,
              environ |-> Env(<<new_token>>, <<new_member_uuid>>)]
    ELSE c

\* Python truthiness of make_api_request's result
Truthy(resp) == resp \notin {"None", "ok_empty_body"}

\* a 200 response whose body run_collection takes as a success
Usable(outcome) == outcome \in OkBodies /\ Truthy(outcome)

\* result of one loop iteration: leave the function ("return"), go on to
\* the next iteration ("next"), or leave it with an exception no except
\* clause of the loop catches ("raise"); called: refresh_token was invoked
Step(kind, resp, refreshed, called, sleep) ==
    [kind |-> kind, resp |-> resp, refreshed |-> refreshed, called |-> called,
     sleep |-> sleep]

\* lines 615-617
FallThrough(att, refreshed, called) ==
    Step("next", "None", refreshed, called,
         IF att < max_retries - 1 THEN "retry" ELSE "none")

\* lines 554-581 (the 401 and the 403 branch are the same code)
AuthFailureRetriesAfterRefresh(att, refreshed, refreshOk) ==
    IF ~refreshed /\ refreshOk
    THEN Step("next", "None", TRUE, TRUE, "none")
    ELSE FallThrough(att, refreshed, ~refreshed)

OnAuthFailure(att, refreshed, refreshOk) ==
    IF ~refreshed
    THEN IF refreshOk
         THEN Step("next", "None", TRUE, TRUE, "none")
         ELSE Step("return", "None", refreshed, TRUE, "none")
    ELSE Step("return", "None", refreshed, FALSE, "none")

\* lines 582-585
OnRateLimit(att, refreshed) == Step("next", "None", refreshed, FALSE, "rate")

\* lines 586-594 and 606-613: keyword is the test on the response or
\* exception text
OnError(att, refreshed, keyword, refreshOk) ==
    IF keyword /\ ~refreshed
    THEN IF refreshOk
         THEN Step("next", "None", TRUE, TRUE, "none")
         ELSE FallThrough(att, refreshed, TRUE)
    ELSE FallThrough(att, refreshed, FALSE)

OnTimeoutRefreshesOnAnyAttempt(att, refreshed, refreshOk) ==
    OnError(att, refreshed, TRUE, refreshOk)

\* lines 596-604
OnTimeout(att, refreshed, refreshOk) ==
    IF att = 0 /\ ~refreshed
    THEN IF refreshOk
         THEN Step("next", "None", TRUE, TRUE, "none")
         ELSE FallThrough(att, refreshed, TRUE)
    ELSE FallThrough(att, refreshed, FALSE)

\* response.json() of line 553 fails on a text that is not JSON: requests
\* raises its JSONDecodeError, a RequestException, which the clause of line
\* 606 catches; the text of the error does not hold 'unauthorized'
OnBodyParseError(att, refreshed, refreshOk) ==
    OnError(att, refreshed, FALSE, refreshOk)

\* response.json() of line 553 fails with an exception that is not a
\* RequestException (RecursionError on a deeply nested body; the ValueError
\* of requests before 2.27): neither except clause of the loop catches it
OnParserFailure(att, refreshed) == Step("raise", "None", refreshed, FALSE, "none")

\* one iteration of the loop of lines 542-617
AttemptResult(att, refreshed, outcome, refreshOk) ==
    CASE outcome \in OkBodies -> Step("return", outcome, refreshed, FALSE, "none")
      [] outcome \in {"s401", "s403"} -> OnAuthFailure(att, refreshed, refreshOk)
      [] outcome = "s429" -> OnRateLimit(att, refreshed)
      [] outcome = "err_auth" -> OnError(att, refreshed, TRUE, refreshOk)
      [] outcome \in {"err", "s2xx"} -> OnError(att, refreshed, FALSE, refreshOk)
      [] outcome = "timeout" -> OnTimeout(att, refreshed, refreshOk)
      [] outcome = "exc_auth" -> OnError(att, refreshed, TRUE, refreshOk)
      [] outcome = "exc" -> OnError(att, refreshed, FALSE, refreshOk)
      [] outcome = "ok_unparseable" -> OnBodyParseError(att, refreshed, refreshOk)
      [] outcome = "ok_parser_fails" -> OnParserFailure(att, refreshed)

\* the script runs only when the iteration calls refresh_token
ScriptOutputsAt(att, refreshed, outcome) ==
    IF AttemptResult(att, refreshed, outcome, TRUE).called
    THEN ScriptOutputs ELSE {"not_run"}

Returned(v) == [ok |-> TRUE, value |-> v]
Raised == [ok |-> FALSE, value |-> "None"]

\* 'pharmacies' in api_response
HasPharmacies(resp) == resp \in {"ok_list0", "ok_list1", "ok_null_field"}

\* api_response.get('pharmacies', [])
Pharmacies(resp) ==
    CASE resp = "ok_list1" -> <<"pharmacy">>
      [] resp = "ok_null_field" -> <<"null_field">>
      [] OTHER -> <<>>

\* the row of lines 634-668: pharmacy.get('address', {}) gives None for a
\* null and the .get on it raises AttributeError
RowOf(pharmacy, key) == IF pharmacy = "null_field" THEN Raised ELSE Returned(key)

\* extract_pharmacy_data: one row per entry of the provider list, a row
\* being represented by the key of its unit
ExtractPharmacyData(resp, key) ==
    IF ~Truthy(resp) \/ ~HasPharmacies(resp) THEN Returned(<<>>)
    ELSE IF \E i \in DOMAIN Pharmacies(resp) : ~RowOf(Pharmacies(resp)[i], key).ok
    THEN Raised
    ELSE Returned([i \in DOMAIN Pharmacies(resp) |->
                      RowOf(Pharmacies(resp)[i], key).value])

\* the header row of the output file
Header == "header"

\* initialize_csv: the header is written if the file does not exist (an
\* output file is the sequence of its rows, <<>> when there is no file)
InitializeCsv(f) == IF f = <<>> THEN <<Header>> ELSE f

AppendToCsvDropsRows(f, rows) == f

\* append_to_csv: nothing for no rows; else the file is opened for append
\* (which creates it), initialize_csv finds it, and the rows are written
AppendToCsv(f, rows) == IF rows = <<>> THEN f ELSE f \o rows

\* ----------------------------------------------------------------- main
\* a text of the environment or of the script output is a sequence of
\* pieces: a blank, a double quote, a single quote or a word
Blank == " "
DoubleQuote == "\""
SingleQuote == "'"

RECURSIVE LStrip(_, _)
LStrip(s, chars) ==
    IF s # <<>> /\ Head(s) \in chars THEN LStrip(Tail(s), chars) ELSE s

RECURSIVE RStrip(_, _)
RStrip(s, chars) ==
    IF s # <<>> /\ s[Len(s)] \in chars
    THEN RStrip(SubSeq(s, 1, Len(s) - 1), chars) ELSE s

\* Python's s.strip(chars)
PyStrip(s, chars) == RStrip(LStrip(s, chars), chars)

\* value.strip().strip('"').strip("'") of lines 312, 327 and 338
Clean(s) == PyStrip(PyStrip(PyStrip(s, {Blank}), {DoubleQuote}), {SingleQuote})

\* the string the pieces spell
RECURSIVE Text(_)
Text(s) == IF s = <<>> THEN "" ELSE Head(s) \o Text(Tail(s))

\* a run of grab_token.sh at startup: it exits with status 0 ("ok") or not
\* ("fails"), or the file is not there ("missing"); its output holds a
\* TOKEN= line, a MEMBERUUID= line, with the text after the = sign
ScriptRun(status, has_token, tokenText, has_member, memberText) ==
    [status |-> status, has_token |-> has_token, token |-> tokenText,
     has_member |-> has_member, member |-> memberText]

\* get_token, lines 304-351: the script is a child process and does not
\* change os.environ, so the second look at the environment finds nothing
GetToken(env, sc) ==
    IF env.TOKEN # <<>> THEN Returned(Text(Clean(env.TOKEN)))
    ELSE IF sc.status # "ok" THEN Raised
    ELSE IF sc.has_token THEN Returned(Text(Clean(sc.token)))
    ELSE Raised

\* get_member_uuid, lines 353-400
GetMemberUuid(env, sc) ==
    IF env.MEMBERUUID # <<>> THEN Returned(Text(Clean(env.MEMBERUUID)))
    ELSE IF sc.status # "ok" THEN Raised
    ELSE IF sc.has_member THEN Returned(Text(Clean(sc.member)))
    ELSE Raised

\* an optional integer argument of the command line (None when not given)
Arg(given, value) == [given |-> given, value |-> value]
NotGiven == Arg(FALSE, 0)
CommandLine(batch, total) == [batch |-> batch, total_batches |-> total]

\* Python truthiness of args.batch and args.total_batches
ArgTrue(a) == a.given /\ a.value # 0

\* the two validations of lines 826-833
BatchArgsRejected(a) ==
    \/ ArgTrue(a.batch) /\ ~ArgTrue(a.total_batches)
    \/ ArgTrue(a.total_batches) /\ ~ArgTrue(a.batch)
    \/ /\ ArgTrue(a.batch)
       /\ (a.batch.value < 1 \/ a.batch.value > a.total_batches.value)

\* batch_info of lines 835-841; NoBatch stands for None
BatchInfoOf(a) ==
    IF ArgTrue(a.batch) /\ ArgTrue(a.total_batches)
    THEN [batch_num |-> a.batch.value, total_batches |-> a.total_batches.value]
    ELSE NoBatch

\* the command line that gives a batch_info
ArgsOf(bi) ==
    IF bi = NoBatch THEN CommandLine(NotGiven, NotGiven)
    ELSE CommandLine(Arg(TRUE, bi.batch_num), Arg(TRUE, bi.total_batches))

\* the exit status of the process by the way main ended: a return gives 0,
\* an exception that leaves main gives a traceback and a non-zero status
ExitStatus(p) ==
    CASE p \in {"rejected", "no_catalog", "completed", "tripped", "interrupted"} -> 0
      [] p \in {"no_credentials", "aborted", "killed"} -> 1
      [] OTHER -> -1

\* ------------------------------------------------------------ run inputs
DrugCodes == <<"A", "B", "C", "D", "E", "F", "G", "H">>
Catalog(n) == [i \in 1..n |-> DrugCodes[i]]
ZipList(n) == [i \in 1..n |-> ToString(i)]

Scenario(rows, cache, zips, bi, tm, geo) ==
    [csvRows |-> rows, uuid_cache |-> cache, zipFile |-> zips, batch_info |-> bi,
     test_mode |-> tm, geocodable |-> geo]

\* the inputs of Spec: a plain catalog; a catalog with a repeated code, a
\* code whose identifier is empty and a code the cache does not know; the second of two batches of a longer zip file
\* with a zip code that does not geocode; a test-mode run
Scenarios ==
    { Scenario(Catalog(MaxDrugs), UuidCache(Range(Catalog(MaxDrugs)), {}),
               <<"1", "2">>,
               NoBatch, FALSE, {"1", "2"}),
      Scenario(<<"A", "B", "A", "C">>, UuidCache({"A"}, {"B"}), <<"1", "2">>,
               NoBatch, FALSE, {"1", "2"}),
      Scenario(<<"A">>, UuidCache({"A"}, {}), <<"1", "2", "3", "4", "5">>,
               [batch_num |-> 2, total_batches |-> 2], FALSE, {"1", "2", "3", "5"}),
      Scenario(<<"A">>, UuidCache({"A"}, {}), <<"1", "2", "3">>,
               NoBatch, TRUE, {"1", "2", "3"}) }

\* the checkpoint files a run may find
CheckpointFiles ==
    { NoFile, PartialFile, Checkpoint("notobj", <<>>, 0),
      Checkpoint("nolist", <<>>, 0), Checkpoint("ok", <<"A_2">>, 1),
      Checkpoint("ok", <<"A_1", "Z_9">>, 2) }

BreakerScenario ==
    Scenario(Catalog(BreakerDrugs), UuidCache(Range(Catalog(BreakerDrugs)), {}),
             <<"1", "2">>, NoBatch, FALSE, {"1", "2"})

BreakerOutcomes == {"ok_list1", "err"}

\* the environment and the script of the run specifications
DefaultEnv == Env(<<"tok0">>, <<"mem0">>)
DefaultScript == ScriptRun("ok", TRUE, <<"tok0">>, TRUE, <<"mem0">>)

\* the state before main creates the collector
InitAll(sc, outcomes, f, at, cmd, catalog, env, scr) ==
    /\ args = cmd
    /\ csv_exists = catalog
    /\ shellEnv = env
    /\ script = scr
    /\ environ = env
    /\ headers_token = "None"
    /\ test_mode = sc.test_mode
    /\ batch_info = sc.batch_info
    /\ csvRows = sc.csvRows
    /\ uuid_cache = sc.uuid_cache
    /\ zipFile = sc.zipFile
    /\ geocodable = sc.geocodable
    /\ server = outcomes
    /\ slices = <<>>
    /\ batches = <<>>
    /\ file = f
    /\ csv = <<>>
    /\ token = "None"
    /\ memberUuid = "None"
    /\ failed_combinations = <<>>
    /\ consecutive_failures = 0
    /\ auto_stop_triggered = FALSE
    /\ pc = at
    /\ drugs = <<>>
    /\ zip_codes = <<>>
    /\ progress = DefaultProgress
    /\ processed_count = 0
    /\ drug_idx = 1
    /\ zip_idx = 1
    /\ params = "mem0"
    /\ attempt = 0
    /\ token_refreshed_this_request = FALSE
    /\ api_response = "None"
    /\ okLeft = MaxOk
    /\ loaded = <<>>
    /\ requested = <<>>
    /\ returned = <<>>
    /\ withPharmacies = {}
    /\ httpCount = 0
    /\ refreshCalls = 0
    /\ lastOutcome = "none"
    /\ lastRefresh = "none"
    /\ lastScript = "not_run"
    /\ lastSleep = "none"
    /\ allRateLimited = TRUE
    /\ waited = request_delay

\* no other collector process, no other checkpoint file
OneCollector ==
    /\ collectors = <<>>
    /\ progress_files = {}

InitWith(sc, outcomes, f, at) ==
    /\ InitAll(sc, outcomes, f, at, ArgsOf(sc.batch_info), TRUE, DefaultEnv,
               DefaultScript)
    /\ OneCollector

Init ==
    \E sc \in Scenarios, f \in CheckpointFiles : InitWith(sc, AllOutcomes, f, "main")

InitBreaker ==
    \E f \in {NoFile, Checkpoint("ok", <<"A_2">>, 1)} :
        InitWith(BreakerScenario, BreakerOutcomes, f, "main")

\* ---------------------------------------------------------- startup inputs
\* --batch and --total-batches: absent, or an integer
BatchArgs == {NotGiven} \cup {Arg(TRUE, v) : v \in 0..MaxBatchArg}

\* the environment of the shell: TOKEN and MEMBERUUID unset or empty, a plain
\* value, a quoted value, a padded value, and values of quotes or blanks only
TokenTexts ==
    { <<>>, <<"tok0">>, <<DoubleQuote, "tok0", DoubleQuote>>,
      <<Blank, "tok0", Blank>>, <<DoubleQuote, DoubleQuote>>, <<Blank>> }

MemberTexts == { <<>>, <<"mem0">>, <<SingleQuote, SingleQuote>> }

\* grab_token.sh prints both lines, prints a TOKEN= line with nothing after
\* the = sign, prints neither line, exits non-zero, or is not there
ScriptRuns ==
    { DefaultScript,
      ScriptRun("ok", TRUE, <<>>, TRUE, <<"mem0">>),
      ScriptRun("ok", FALSE, <<>>, FALSE, <<>>),
      ScriptRun("fails", FALSE, <<>>, FALSE, <<>>),
      ScriptRun("missing", FALSE, <<>>, FALSE, <<>>) }

StartupScenario ==
    Scenario(<<"A">>, UuidCache({"A"}, {}), <<"1">>, NoBatch, FALSE, {"1"})

\* every command line, with and without the catalog file, in every
\* environment, before main runs
InitStartup ==
    \E b \in BatchArgs, t \in BatchArgs, catalog \in BOOLEAN,
       tt \in TokenTexts, mt \in MemberTexts, scr \in ScriptRuns :
        /\ InitAll(StartupScenario, BreakerOutcomes, NoFile, "main",
                   CommandLine(b, t), catalog, Env(tt, mt), scr)
        /\ OneCollector

\* a zip-code file of every length, to be read by the collectors of batch
\* 1..total_batches in turn
InitPartition ==
    \E len \in 0..MaxListLen, n \in 1..MaxBatches, tm \in BOOLEAN :
        InitWith(Scenario(<<>>, UuidCache({}, {}), ZipList(len),
                          [batch_num |-> 1, total_batches |-> n], tm, {}),
                 {}, NoFile, "partition")

\* read_zipcode_file for the next batch_num
ReadBatch ==
    /\ pc = "partition"
    /\ batch_info.batch_num <= batch_info.total_batches
    /\ slices' = Append(slices, BatchSlice(zipFile, batch_info))
    /\ batches' = Append(batches, ReadZipcodeFile(zipFile, batch_info, test_mode))
    /\ batch_info' = [batch_info EXCEPT !.batch_num = @ + 1]
    /\ UNCHANGED <<inputVars, concVars, fileVars, credVars, breakerVars, pc,
                   loopVars, callVars, callHist, runHist, waited>>

NextPartition == ReadBatch

SpecPartition == InitPartition /\ [][NextPartition]_vars

\* --------------------------------------------------------------- sleeps
\* time.sleep of an iteration of the retry loop: retry_delay * 2 after a 429
\* (line 584), retry_delay before the next attempt (lines 616-617)
SleepTime(kind) ==
    CASE kind = "rate" -> retry_delay * 2
      [] kind = "retry" -> retry_delay
      [] OTHER -> 0

RateLimitSleepShort == request_delay - 1

\* time.sleep(self.request_delay) after each unit (line 793)
RateLimitSleep == request_delay

\* the time slept since the last request of this process was sent, after a
\* further sleep; counted up to request_delay, and request_delay while no
\* request has been sent
Waited(sofar, slept) == Min(request_delay, sofar + slept)

\* --------------------------------------------------------- run_collection
Terminal == {"completed", "tripped", "aborted", "interrupted", "rejected",
             "no_credentials", "no_catalog", "killed"}

CurrentKey == CombinationKey(drugs[drug_idx], zip_codes[zip_idx])

LoopDone == drug_idx > Len(drugs) \/ Len(zip_codes) = 0

\* the unit after (d, z) in the nested loops of lines 726-727
NextUnitZipOuter(d, z) ==
    IF d < Len(drugs) THEN <<d + 1, z>>
    ELSE IF z < Len(zip_codes) THEN <<1, z + 1>> ELSE <<Len(drugs) + 1, 1>>

NextUnit(d, z) == IF z < Len(zip_codes) THEN <<d, z + 1>> ELSE <<d + 1, 1>>

Credentials ==
    [token |-> token, headers_token |-> headers_token, memberUuid |-> memberUuid,
     environ |-> environ]

ClearCall ==
    /\ params' = "mem0"
    /\ attempt' = 0
    /\ token_refreshed_this_request' = FALSE
    /\ api_response' = "None"
    /\ httpCount' = 0
    /\ refreshCalls' = 0
    /\ lastOutcome' = "none"
    /\ lastRefresh' = "none"
    /\ lastScript' = "not_run"
    /\ lastSleep' = "none"
    /\ allRateLimited' = TRUE

\* the process has ended: no collector object, no locals
ClearCollector ==
    /\ token' = "None"
    /\ headers_token' = "None"
    /\ memberUuid' = "None"
    /\ environ' = shellEnv
    /\ failed_combinations' = <<>>
    /\ consecutive_failures' = 0
    /\ auto_stop_triggered' = FALSE
    /\ drugs' = <<>>
    /\ zip_codes' = <<>>
    /\ progress' = DefaultProgress
    /\ processed_count' = 0
    /\ drug_idx' = 1
    /\ zip_idx' = 1

\* main up to the call of run_collection (lines 811-848): the arguments are
\* validated, the collector is created (__init__, lines 41-105), the
\* catalog file is looked for
Main ==
    /\ pc = "main"
    /\ LET tok == GetToken(environ, script)
           mem == GetMemberUuid(environ, script)
       IN  IF BatchArgsRejected(args)
           THEN pc' = "rejected" /\ UNCHANGED <<batch_info, credVars>>
           ELSE IF ~tok.ok \/ ~mem.ok
           THEN pc' = "no_credentials" /\ UNCHANGED <<batch_info, credVars>>
           ELSE /\ batch_info' = BatchInfoOf(args)
                /\ token' = tok.value
                /\ headers_token' = tok.value
                /\ memberUuid' = mem.value
                /\ UNCHANGED environ
                /\ pc' = IF csv_exists THEN "start" ELSE "no_catalog"
    /\ failed_combinations' = <<>>
    /\ consecutive_failures' = 0
    /\ auto_stop_triggered' = FALSE
    /\ UNCHANGED <<inputVars, partVars, fileVars, loopVars, callVars, callHist,
                   runHist, waited>>

\* KeyboardInterrupt before run_collection is called, outside the try of
\* lines 849-855
InterruptMain ==
    /\ pc = "main"
    /\ pc' = "killed"
    /\ UNCHANGED <<configVars, partVars, fileVars, credVars, breakerVars,
                   loopVars, callVars, callHist, runHist, waited>>

\* run_collection up to line 724
StartRun ==
    /\ pc = "start"
    /\ drugs' = LoadDrugsFromExcel(csvRows, uuid_cache, test_mode)
    /\ zip_codes' = GetZipCodesWithCoordinates(zipFile, batch_info, test_mode,
                                               geocodable)
    /\ progress' = LoadProgress(file)
    /\ loaded' = CompletedOf(progress')
    /\ requested' = <<>>
    /\ returned' = <<>>
    /\ withPharmacies' = {}
    /\ drug_idx' = 1
    /\ zip_idx' = 1
    /\ IF progress'.kind = "notobj"
       THEN pc' = "aborted" /\ processed_count' = 0
       ELSE pc' = "loop" /\ processed_count' = progress'.total_processed
    /\ waited' = request_delay
    /\ csv' = InitializeCsv(csv)
    /\ UNCHANGED <<configVars, partVars, file, credVars, breakerVars,
                   callVars, callHist, okLeft>>

\* the skip test of line 731
AlreadyProcessedNever(key) == FALSE

AlreadyProcessed(key) == key \in Range(CompletedOf(progress))

\* the auto-stop test of line 738
StopRequestedNever == FALSE

StopRequested == auto_stop_triggered

\* lines 726-746: skip a unit of the checkpoint, stop on auto-stop, or enter
\* make_api_request (lines 530-540)
ConsiderUnit ==
    /\ pc = "loop"
    /\ ~LoopDone
    /\ IF AlreadyProcessed(CurrentKey)
       THEN /\ drug_idx' = NextUnit(drug_idx, zip_idx)[1]
            /\ zip_idx' = NextUnit(drug_idx, zip_idx)[2]
            /\ UNCHANGED <<pc, callVars, callHist, requested>>
       ELSE IF StopRequested
       THEN /\ pc' = "tripped"
            /\ UNCHANGED <<drug_idx, zip_idx, callVars, callHist, requested>>
       ELSE /\ pc' = "attempt"
            /\ params' = memberUuid
            /\ attempt' = 0
            /\ token_refreshed_this_request' = FALSE
            /\ requested' = Append(requested, [d |-> drug_idx, z |-> zip_idx,
                                                key |-> CurrentKey])
            /\ UNCHANGED <<drug_idx, zip_idx, api_response, callHist>>
    /\ UNCHANGED <<configVars, partVars, fileVars, credVars, breakerVars, drugs,
                   zip_codes, progress, processed_count, okLeft, loaded,
                   returned, withPharmacies, waited>>

RunOutcomeAlwaysCompleted(stopped) == "completed"

\* the report after the loops (lines 795-809): stopped by the auto-stop
\* trigger, or completed
RunOutcome(stopped) == IF stopped THEN "tripped" ELSE "completed"

\* the loops are exhausted
FinishLoop ==
    /\ pc = "loop"
    /\ LoopDone
    /\ pc' = RunOutcome(auto_stop_triggered)
    /\ UNCHANGED <<configVars, partVars, fileVars, credVars, breakerVars, loopVars,
                   callVars, callHist, runHist, waited>>

\* the loop variable of 'for attempt in range(self.max_retries)' (line 542)
\* in the iteration after this one, also after a 'continue'
NextAttemptStuck(att) == att

NextAttempt(att) == att + 1

\* one iteration of the retry loop of make_api_request (lines 542-620): the
\* HTTP request, its outcome, a refresh_token call and the sleep
Attempt ==
    /\ pc = "attempt"
    /\ \E outcome \in server :
       \E out \in ScriptOutputsAt(attempt, token_refreshed_this_request, outcome) :
        LET r == AttemptResult(attempt, token_refreshed_this_request, outcome,
                               RefreshSucceeds(out))
            refreshedNow == r.called /\ RefreshSucceeds(out)
            c == IF r.called THEN RefreshToken(Credentials, out) ELSE Credentials
        IN  /\ Usable(outcome) => okLeft > 0
            /\ okLeft' = IF Usable(outcome) THEN okLeft - 1 ELSE okLeft
            /\ httpCount' = httpCount + 1
            /\ lastOutcome' = outcome
            /\ refreshCalls' = refreshCalls + (IF r.called THEN 1 ELSE 0)
            /\ lastRefresh' = IF ~r.called THEN "none"
                              ELSE IF RefreshSucceeds(out) THEN "ok" ELSE "failed"
            /\ lastSleep' = r.sleep
            /\ allRateLimited' = (allRateLimited /\ outcome = "s429")
            /\ waited' = Waited(0, SleepTime(r.sleep))
            /\ lastScript' = IF ~r.called THEN "not_run"
                             ELSE IF out = "both" THEN "both" ELSE "not_both"
            /\ token' = c.token
            /\ headers_token' = c.headers_token
            /\ memberUuid' = c.memberUuid
            /\ environ' = c.environ
            /\ token_refreshed_this_request' = r.refreshed
            /\ attempt' = IF r.kind = "next" THEN NextAttempt(attempt) ELSE attempt
            /\ IF r.kind = "next" /\ NextAttempt(attempt) < max_retries
               THEN pc' = "attempt"
                    /\ UNCHANGED <<api_response, returned, withPharmacies>>
               ELSE IF r.kind = "raise"
               THEN pc' = "aborted"
                    /\ UNCHANGED <<api_response, returned, withPharmacies>>
               ELSE /\ pc' = "result"
                    /\ api_response' = r.resp
                    /\ returned' = Append(returned, CurrentKey)
                    /\ withPharmacies' =
                           IF Pharmacies(r.resp) # <<>>
                           THEN withPharmacies \cup {CurrentKey}
                           ELSE withPharmacies
    /\ UNCHANGED <<configVars, partVars, fileVars, breakerVars, loopVars, params,
                   loaded, requested>>

\* the limit test of line 772
LimitReachedStrict(n) == n > max_consecutive_failures

LimitReached(n) == n >= max_consecutive_failures

\* consecutive_failures after a successful unit (line 756)
AfterSuccessKeeps(n) == n

AfterSuccess(n) == 0

\* lines 754-783: the result of make_api_request is handled; an exception
\* of extract_pharmacy_data leaves run_collection
RecordResult ==
    /\ pc = "result"
    /\ IF Truthy(api_response)
       THEN LET rows == ExtractPharmacyData(api_response, CurrentKey)
            IN  /\ consecutive_failures' = AfterSuccess(consecutive_failures)
                /\ IF rows.ok
                   THEN csv' = AppendToCsv(csv, rows.value) /\ pc' = "update"
                   ELSE csv' = csv /\ pc' = "aborted"
                /\ UNCHANGED <<failed_combinations, auto_stop_triggered>>
       ELSE /\ failed_combinations' = Append(failed_combinations, CurrentKey)
            /\ consecutive_failures' = consecutive_failures + 1
            /\ auto_stop_triggered' =
                   (auto_stop_triggered \/ LimitReached(consecutive_failures'))
            /\ pc' = "update"
            /\ UNCHANGED csv
    /\ ClearCall
    /\ UNCHANGED <<configVars, partVars, file, credVars, loopVars, runHist,
                   waited>>

\* progress['completed'] after line 786
MarkDoneNever(completed, key) == completed

MarkDoneOnSuccessOnly(completed, key) ==
    IF consecutive_failures = 0 THEN Append(completed, key) ELSE completed

MarkDone(completed, key) == Append(completed, key)

\* progress['total_processed'] after line 787
TotalAfterKeeps(count) == count

TotalAfter(count) == count + 1

\* the content of the checkpoint file after save_progress(progress), lines
\* 474-480, given its content before
SaveProgressSkips(before, prog) == before

SaveProgress(before, prog) == prog

\* lines 785-793: the checkpoint is updated and saved, then the rate-limit
\* sleep; without a 'completed' list line 786 raises and main re-raises
UpdateProgress ==
    /\ pc = "update"
    /\ IF progress.kind = "nolist"
       THEN /\ pc' = "aborted"
            /\ UNCHANGED <<progress, file, processed_count, drug_idx, zip_idx,
                           waited>>
       ELSE /\ progress' = [progress EXCEPT
                               !.completed = MarkDone(@, CurrentKey),
                               !.total_processed = TotalAfter(processed_count)]
            /\ file' = SaveProgress(file, progress')
            /\ processed_count' = processed_count + 1
            /\ drug_idx' = NextUnit(drug_idx, zip_idx)[1]
            /\ zip_idx' = NextUnit(drug_idx, zip_idx)[2]
            /\ waited' = Waited(waited, RateLimitSleep)
            /\ pc' = "loop"
    /\ UNCHANGED <<configVars, partVars, csv, credVars, breakerVars, drugs,
                   zip_codes, callVars, callHist, runHist>>

\* KeyboardInterrupt between two steps (main, lines 851-852)
Interrupt ==
    /\ pc \in {"loop", "attempt", "result", "update"}
    /\ pc' = "interrupted"
    /\ ClearCall
    /\ ClearCollector
    /\ waited' = request_delay
    /\ UNCHANGED <<configVars, partVars, fileVars, runHist>>

\* KeyboardInterrupt inside save_progress (lines 477-478): the file was
\* opened for writing and holds a part of the JSON text
InterruptInSave ==
    /\ pc = "update"
    /\ progress.kind = "ok"
    /\ file' = PartialFile
    /\ pc' = "interrupted"
    /\ ClearCollector
    /\ waited' = request_delay
    /\ UNCHANGED <<configVars, partVars, csv, callVars, callHist, runHist>>

\* the operator starts the script again: a new process, whose output file
\* has a new time stamp in its name (line 89)
Restart ==
    /\ pc \in Terminal
    /\ pc' = "main"
    /\ ClearCall
    /\ ClearCollector
    /\ loaded' = <<>>
    /\ requested' = <<>>
    /\ returned' = <<>>
    /\ withPharmacies' = {}
    /\ waited' = request_delay
    /\ csv' = <<>>
    /\ UNCHANGED <<configVars, partVars, file, okLeft>>

Next ==
    \/ Main
    \/ InterruptMain
    \/ StartRun
    \/ ConsiderUnit
    \/ FinishLoop
    \/ Attempt
    \/ RecordResult
    \/ UpdateProgress
    \/ Interrupt
    \/ InterruptInSave
    \/ Restart

Spec == Init /\ [][Next]_vars

SpecBreaker == InitBreaker /\ [][Next]_vars

SpecStartup == InitStartup /\ [][Next]_vars

\* ==================================================== concurrent collectors
\* the zip-code files of the three states, in the order of state_files
StateFiles == <<"FL", "GA", "OH">>

StateZips(state) ==
    CASE state = "FL" -> <<"1", "2", "3">>
      [] state = "GA" -> <<"4", "5">>
      [] state = "OH" -> <<"6">>

\* "_".join(states_filter)
RECURSIVE Join(_)
Join(states) ==
    IF states = <<>> THEN ""
    ELSE IF Len(states) = 1 THEN states[1]
    ELSE states[1] \o "_" \o Join(Tail(states))

ProgressFileWithoutBatch(tm, states_filter, bi) ==
    "results/progress" \o (IF tm THEN "_test" ELSE "")
        \o (IF states_filter # <<>> THEN "_" \o Join(states_filter) ELSE "")
        \o ".json"

\* self.progress_file of lines 86-90; <<>> stands for no states filter and
\* NoBatch for no batch_info
ProgressFile(tm, states_filter, bi) ==
    "results/progress" \o (IF tm THEN "_test" ELSE "")
        \o (IF states_filter # <<>> THEN "_" \o Join(states_filter) ELSE "")
        \o (IF bi # NoBatch
            THEN "_batch" \o ToString(bi.batch_num) \o "of"
                     \o ToString(bi.total_batches)
            ELSE "")
        \o ".json"

\* get_zip_codes_with_coordinates: the files of the states of the filter
\* (of all states without filter), each cut by read_zipcode_file
RECURSIVE ZipCodesFrom(_, _, _, _)
ZipCodesFrom(i, tm, states_filter, bi) ==
    IF i > Len(StateFiles) THEN <<>>
    ELSE (IF states_filter = <<>> \/ StateFiles[i] \in Range(states_filter)
          THEN ReadZipcodeFile(StateZips(StateFiles[i]), bi, tm)
          ELSE <<>>)
             \o ZipCodesFrom(i + 1, tm, states_filter, bi)

\* the configuration of a collector: the arguments of its constructor
Configuration(tm, states_filter, bi) ==
    [test_mode |-> tm, states_filter |-> states_filter, batch_info |-> bi]

Configurations ==
    { Configuration(tm, sf, bi) :
        tm \in BOOLEAN,
        sf \in { <<>>, <<"FL">>, <<"FL", "GA">>, <<"GA", "FL">> },
        bi \in {NoBatch} \cup
               UNION { { [batch_num |-> n, total_batches |-> t] : n \in 1..t } :
                           t \in 1..MaxConcBatches } }

\* a collector that has been constructed and has not started its run
NewCollector(cfg) ==
    [cfg |-> cfg,
     progress_file |-> ProgressFile(cfg.test_mode, cfg.states_filter, cfg.batch_info),
     at |-> "init", completed |-> <<>>, zip_codes |-> <<>>, zip_idx |-> 1]

\* load_progress: the list of the file, the default when there is no file
ReadProgressFile(name, files) ==
    IF \E f \in files : f.name = name
    THEN (CHOOSE f \in files : f.name = name).completed
    ELSE <<>>

\* save_progress: the file is rewritten
WriteProgressFile(name, completed, files) ==
    {f \in files : f.name # name} \cup {[name |-> name, completed |-> completed]}

\* two collector processes of any two configurations, no checkpoint file
InitConcurrent ==
    /\ \E sc \in {Scenario(<<"A">>, UuidCache({"A"}, {}), <<>>, NoBatch, FALSE, {})} :
           InitAll(sc, {}, NoFile, "concurrent", ArgsOf(NoBatch), TRUE,
                   DefaultEnv, DefaultScript)
    /\ \E c1 \in Configurations, c2 \in Configurations :
           collectors = <<NewCollector(c1), NewCollector(c2)>>
    /\ progress_files = {}

ConcurrentUnchanged ==
    UNCHANGED <<configVars, slices, batches, fileVars, credVars, breakerVars, pc,
                loopVars, callVars, callHist, runHist, waited>>

\* run_collection of collector p up to line 724: the zip codes, load_progress
LoadCheckpoint ==
    /\ pc = "concurrent"
    /\ \E p \in DOMAIN collectors :
        /\ collectors[p].at = "init"
        /\ collectors' = [collectors EXCEPT
               ![p].at = "loop",
               ![p].completed = ReadProgressFile(collectors[p].progress_file,
                                                 progress_files),
               ![p].zip_codes = ZipCodesFrom(1, collectors[p].cfg.test_mode,
                                             collectors[p].cfg.states_filter,
                                             collectors[p].cfg.batch_info)]
    /\ UNCHANGED progress_files
    /\ ConcurrentUnchanged

\* one unit of collector p (lines 727-788, the request left out): skipped
\* when its key is in the completed list, else appended and saved
ProcessUnit ==
    /\ pc = "concurrent"
    /\ \E p \in DOMAIN collectors :
        LET c == collectors[p]
            key == CombinationKey(csvRows[1], c.zip_codes[c.zip_idx])
        IN  /\ c.at = "loop"
            /\ c.zip_idx <= Len(c.zip_codes)
            /\ IF key \in Range(c.completed)
               THEN /\ collectors' = [collectors EXCEPT ![p].zip_idx = @ + 1]
                    /\ UNCHANGED progress_files
               ELSE /\ collectors' = [collectors EXCEPT
                           ![p].zip_idx = @ + 1,
                           ![p].completed = Append(@, key)]
                    /\ progress_files' =
                           WriteProgressFile(c.progress_file,
                                             Append(c.completed, key),
                                             progress_files)
    /\ ConcurrentUnchanged

\* the loops of collector p are exhausted
FinishCollector ==
    /\ pc = "concurrent"
    /\ \E p \in DOMAIN collectors :
        /\ collectors[p].at = "loop"
        /\ collectors[p].zip_idx > Len(collectors[p].zip_codes)
        /\ collectors' = [collectors EXCEPT ![p].at = "done"]
    /\ UNCHANGED progress_files
    /\ ConcurrentUnchanged

NextConcurrent ==
    \/ LoadCheckpoint
    \/ ProcessUnit
    \/ FinishCollector

SpecConcurrent == InitConcurrent /\ [][NextConcurrent]_vars

\* ================================================================ claims
RECURSIVE Concat(_)
Concat(ss) == IF ss = <<>> THEN <<>> ELSE Head(ss) \o Concat(Tail(ss))

RECURSIVE SumLen(_, _)
SumLen(ss, n) == IF n = 0 THEN 0 ELSE SumLen(ss, n - 1) + Len(ss[n])

\* C1: in non-test mode the lists read_zipcode_file returns for batch_num
\* 1, 2, ... are consecutive stretches of the file, each starting where the
\* one before ends, and once all total_batches are read their concatenation
\* is the whole file
C1_SlicesPartitionTheList ==
    (pc = "partition" /\ ~test_mode) =>
        /\ \A b \in 1..Len(batches) :
               batches[b] = SubSeq(zipFile, SumLen(batches, b - 1) + 1,
                                   SumLen(batches, b))
        /\ SumLen(batches, Len(batches)) <= Len(zipFile)
        /\ Len(batches) = batch_info.total_batches => Concat(batches) = zipFile

C1_Witness ==
    /\ pc = "partition" /\ ~test_mode
    /\ batch_info.total_batches = 3
    /\ Len(batches) = 3
    /\ Len(zipFile) = 8

\* C2: the slice of batch b starts at (b-1)*base + min(b-1, remainder) and has
\* base+1 items if b <= remainder and base items otherwise; sizes differ by at
\* most 1; 10 items in 3 batches give sizes 4, 3, 3
C2_SliceOffsetAndLength ==
    pc = "partition" =>
        LET n == batch_info.total_batches
            base == Len(zipFile) \div n
            remainder == Len(zipFile) % n
            start(b) == (b - 1) * base + Min(b - 1, remainder)
            size(b) == IF b <= remainder THEN base + 1 ELSE base
        IN  /\ \A b \in 1..Len(slices) :
                 /\ Len(slices[b]) = size(b)
                 /\ slices[b] = SubSeq(zipFile, start(b) + 1, start(b) + size(b))
            /\ \A a, b \in 1..Len(slices) :
                 Len(slices[a]) - Len(slices[b]) \in {-1, 0, 1}
            /\ (Len(zipFile) = 10 /\ n = 3 /\ Len(slices) = 3) =>
                 <<Len(slices[1]), Len(slices[2]), Len(slices[3])>> = <<4, 3, 3>>

C2_Witness ==
    /\ pc = "partition"
    /\ Len(zipFile) = 10
    /\ batch_info.total_batches = 3
    /\ Len(slices) = 3

Before(a, b) == a.d < b.d \/ (a.d = b.d /\ a.z < b.z)

Running == pc \in {"loop", "attempt", "result", "update"}

Units == {u \in [d : 1..Len(drugs), z : 1..Len(zip_codes)] : TRUE}

KeyOf(u) == CombinationKey(drugs[u.d], zip_codes[u.z])

RequestsFor(key) == {i \in 1..Len(requested) : requested[i].key = key}

\* C3: make_api_request is called only for units whose key is not in the
\* completed list loaded at start, in the nested order (drug outer, zip
\* inner), and a completed run has called it for every unit not in that list
C3_ResumeSkipsLoadedKeys ==
    /\ \A i \in 1..Len(requested) : requested[i].key \notin Range(loaded)
    /\ \A i, j \in 1..Len(requested) : i < j => Before(requested[i], requested[j])
    /\ pc = "completed" =>
           \A u \in Units : KeyOf(u) \notin Range(loaded) => RequestsFor(KeyOf(u)) # {}

C3_Witness ==
    /\ pc = "completed"
    /\ Len(requested) >= 3
    /\ \E u \in Units : KeyOf(u) \in Range(loaded)

\* the units the loops have gone past
Passed(u) == Before(u, [d |-> drug_idx, z |-> zip_idx])

\* C4: within one run no key is requested twice, and a key that came up twice
\* in the iteration (and was not in the loaded checkpoint) was requested
\* exactly once, at its first occurrence
C4_SameKeyRequestedOnce ==
    /\ \A i, j \in 1..Len(requested) :
           requested[i].key = requested[j].key => i = j
    /\ (Running \/ pc \in {"completed", "tripped"}) =>
           \A u, v \in Units :
               (Before(u, v) /\ Passed(v) /\ KeyOf(u) = KeyOf(v)
                   /\ KeyOf(u) \notin Range(loaded)) =>
                   /\ Cardinality(RequestsFor(KeyOf(u))) = 1
                   /\ \A i \in RequestsFor(KeyOf(u)) : ~Before(u, requested[i])

C4_Witness ==
    /\ pc = "loop"
    /\ \E u, v \in Units :
           /\ Before(u, v) /\ Passed(v) /\ KeyOf(u) = KeyOf(v)
           /\ KeyOf(u) \notin Range(loaded)
           /\ RequestsFor(KeyOf(u)) # {}

SameRun == pc' \notin {"main", "start", "interrupted"}

\* C6: auto_stop_triggered becomes true in the step that takes
\* consecutive_failures from 9 to max_consecutive_failures (10), a failed unit,
\* and in no other; every failed unit adds one to consecutive_failures and
\* every successful unit sets it to 0; within a run auto_stop_triggered stays
\* true once set
C6_BreakerTripsAtThreshold ==
    [][ /\ (~auto_stop_triggered /\ auto_stop_triggered') =>
               /\ pc = "result" /\ ~Truthy(api_response)
               /\ consecutive_failures' = max_consecutive_failures
        /\ (pc = "result" /\ pc' = "update" /\ ~Truthy(api_response)) =>
               /\ consecutive_failures' = consecutive_failures + 1
               /\ consecutive_failures' = max_consecutive_failures
                      => auto_stop_triggered'
               /\ consecutive_failures' < max_consecutive_failures
                      => ~auto_stop_triggered'
        /\ (pc = "result" /\ pc' = "update" /\ Truthy(api_response)) =>
               consecutive_failures' = 0
        /\ (auto_stop_triggered /\ SameRun) => auto_stop_triggered'
      ]_vars

C6_Witness ==
    /\ auto_stop_triggered
    /\ consecutive_failures = max_consecutive_failures
    /\ Len(failed_combinations) = max_consecutive_failures + 1
    /\ Len(csv) > 1

C8_RefreshAtMostOncePerCall == refreshCalls <= 1

\* C9: a 401 or 403 that arrives after a refresh succeeded in this call, or
\* whose own refresh fails, ends the call in that iteration with no result:
\* no sleep, no refresh beyond the failed one, and no later request in the call
C9_AuthFailureEndsCall ==
    [][ /\ ( /\ pc = "attempt"
             /\ pc' \in {"attempt", "result"}
             /\ lastOutcome' \in {"s401", "s403"}
             /\ (token_refreshed_this_request \/ lastRefresh' = "failed") ) =>
               /\ pc' = "result"
               /\ api_response' = "None"
               /\ lastSleep' = "none"
               /\ httpCount' = httpCount + 1
               /\ refreshCalls' = refreshCalls
                      + (IF token_refreshed_this_request THEN 0 ELSE 1)
        /\ pc = "result" => (httpCount' <= httpCount /\ refreshCalls' <= refreshCalls)
      ]_vars

C9_Witness ==
    /\ pc = "result"
    /\ lastOutcome = "s401"
    /\ token_refreshed_this_request
    /\ lastRefresh = "none"
    /\ api_response = "None"

\* C10: a refresh_token call that succeeds is followed, in the same call, by
\* a further HTTP request with no sleep in between
C10_RequestFollowsRefresh ==
    [][ (pc = "attempt" /\ lastRefresh' = "ok") =>
            (pc' = "attempt" /\ lastSleep' = "none") ]_vars

\* what the request of the next iteration carries: headers=self.headers
\* (line 548) and the params copied before the loop (lines 530, 547)
RequestToken == token
RequestMember == params

\* C11: a request issued after a successful refresh in the same call carries
\* the refreshed token and the refreshed member identifier
C11_RequestCarriesRefreshedPair ==
    [][ (pc = "attempt" /\ httpCount' = httpCount + 1
            /\ token_refreshed_this_request) =>
            (RequestToken = token /\ RequestMember = memberUuid) ]_vars

\* C12: a 429 answer is followed by a retry after the doubled sleep on every
\* attempt, and a unit all of whose attempts were answered 429 does not
\* raise consecutive_failures
C12_RateLimitRetriedNotCounted ==
    [][ /\ (pc = "attempt" /\ lastOutcome' = "s429") =>
               (pc' = "attempt" /\ lastSleep' = "rate")
        /\ (pc = "result" /\ pc' = "update" /\ allRateLimited) =>
               consecutive_failures' <= consecutive_failures ]_vars

\* keys the run had in its checkpoint or sent a request for
KeysOfRun == Range(loaded) \cup {requested[i].key : i \in DOMAIN requested}

\* keys a run started now would skip
KeysOnFile == Range(CompletedOf(LoadProgress(file)))

\* C13: whenever the process dies, also inside save_progress, the checkpoint
\* file stays a complete loadable record, and the restarted run sends
\* requests again for at most the one unit that was in flight
C13_CrashLeavesLoadableCheckpoint ==
    [][ /\ file.kind \in {"absent", "ok"} => file'.kind \in {"absent", "ok"}
        /\ pc' \in {"interrupted", "aborted"} =>
               Cardinality(KeysOfRun' \ KeysOnFile') <= 1 ]_vars

C15_CorruptCheckpointIsNoProgress ==
    file.kind \in {"unparseable", "notobj", "nolist"} =>
        /\ pc # "aborted"
        /\ pc \in {"loop", "attempt", "result", "update"} =>
               (progress.kind = "ok" /\ loaded = <<>>)

\* C16: within a run the checkpoint update of a processed unit appends one
\* key to the completed list and adds one to total_processed, which stays
\* equal to the number of completed keys if it was equal before; no other
\* step of the run changes the progress
C16_CheckpointCountersGrowTogether ==
    [][ /\ (pc = "update" /\ pc' = "loop") =>
               /\ progress'.completed = Append(progress.completed, CurrentKey)
               /\ progress'.total_processed = progress.total_processed + 1
               /\ progress.total_processed = Len(progress.completed) =>
                      progress'.total_processed = Len(progress'.completed)
        /\ (Running /\ SameRun /\ ~(pc = "update" /\ pc' = "loop")) =>
               progress' = progress ]_vars

C16_Witness ==
    /\ pc = "loop"
    /\ loaded # <<>>
    /\ Len(returned) >= 2
    /\ Len(progress.completed) = Len(loaded) + Len(returned)
    /\ progress.total_processed = Len(progress.completed)

\* C17: a unit whose key is in the checkpoint is passed over and nothing but
\* the loop position changes: no request, no sleep, no output row, no change
\* of the checkpoint, of the processed counter or of the breaker
C17_SkipHasNoSideEffects ==
    [][ (pc = "loop" /\ ~LoopDone /\ SameRun
            /\ CurrentKey \in Range(CompletedOf(progress))) =>
            /\ pc' = "loop"
            /\ <<drug_idx', zip_idx'>> = NextUnit(drug_idx, zip_idx)
            /\ UNCHANGED <<requested, returned, callVars, callHist, waited,
                           fileVars, progress, processed_count, credVars,
                           breakerVars>> ]_vars

C17_Witness ==
    /\ pc = "loop"
    /\ loaded # <<>>
    /\ requested # <<>>
    /\ \E u \in Units : KeyOf(u) \in Range(loaded) /\ Passed(u)
    /\ Len(csv) > 1

\* C18: whenever a request follows an earlier request of the run, in the
\* same call or in the call of an earlier unit, at least request_delay has
\* been slept since that earlier request
C18_RequestsAreSpaced ==
    (pc = "attempt" /\ (httpCount > 0 \/ Len(requested) > 1)) =>
        waited >= request_delay

\* the outcomes that are HTTP success statuses (200 to 299)
SuccessStatuses == OkBodies \cup {"s2xx"}

\* C19: an attempt answered with a success status ends make_api_request with
\* the body of that answer, without a sleep, a refresh or a further attempt
C19_SuccessStatusReturnsBody ==
    [][ (pc = "attempt" /\ httpCount' = httpCount + 1
            /\ lastOutcome' \in SuccessStatuses) =>
            /\ pc' = "result"
            /\ api_response' = lastOutcome'
            /\ lastSleep' = "none"
            /\ lastRefresh' = "none" ]_vars

\* C20: a unit whose call ended with a 200 answer is handled as a success,
\* whatever its body: consecutive_failures becomes 0, the key is not added
\* to failed_combinations, and a body without provider list, or an empty
\* one, adds no output row
C20_SuccessfulAnswerIsSuccess ==
    [][ (pc = "result" /\ pc' = "update" /\ lastOutcome \in OkBodies) =>
            /\ consecutive_failures' = 0
            /\ failed_combinations' = failed_combinations
            /\ api_response \in {"ok_empty_body", "ok_no_list"} => csv' = csv ]_vars

\* C21: a refresh_token call whose script output holds both a token and a
\* member identifier sets self.token, headers['token'], the memberUuid of
\* static_params and the two environment variables to the new values; any
\* other output, or a failing script, leaves all five as they were, and the
\* call returns False to the retry loop
C21_RefreshIsAllOrNothing ==
    [][ (pc = "attempt" /\ httpCount' = httpCount + 1 /\ lastScript' # "not_run") =>
            IF lastScript' = "both"
            THEN /\ lastRefresh' = "ok"
                 /\ token' = OtherToken(token)
                 /\ headers_token' = token'
                 /\ environ'.TOKEN = <<token'>>
                 /\ memberUuid' = OtherMember(memberUuid)
                 /\ environ'.MEMBERUUID = <<memberUuid'>>
            ELSE /\ lastRefresh' = "failed"
                 /\ UNCHANGED credVars
                 /\ pc' \in {"attempt", "result"} ]_vars

C21_Witness ==
    /\ pc = "attempt"
    /\ lastScript = "both"
    /\ token = "tok1"
    /\ headers_token = "tok1"
    /\ memberUuid = "mem1"
    /\ environ = Env(<<"tok1">>, <<"mem1">>)

\* C22: one make_api_request call sends at most max_retries requests,
\* requests after a refresh or after a 429 included, and a call none of
\* whose requests was answered 200 hands None to run_collection
C22_AtMostMaxRetriesRequests ==
    /\ httpCount <= max_retries
    /\ (pc = "result" /\ lastOutcome \notin OkBodies) => api_response = "None"

C22_Witness ==
    /\ pc = "result"
    /\ httpCount = max_retries
    /\ refreshCalls >= 1
    /\ lastOutcome = "s429"
    /\ api_response = "None"

\* C23: whatever answers an attempt (any status, a timeout, a transport
\* exception, a 200 whose body does not parse, a refresh that fails), the
\* iteration ends in the next attempt or in a return to run_collection with
\* a body or None; no exception leaves make_api_request
C23_NoErrorEscapesTheCall ==
    [][ (pc = "attempt" /\ httpCount' = httpCount + 1) =>
            /\ lastOutcome' \in AllOutcomes
            /\ pc' \in {"attempt", "result"}
            /\ pc' = "result" =>
                   /\ api_response' \in OkBodies \cup {"None"}
                   /\ api_response' # "None" => api_response' = lastOutcome' ]_vars

\* the codes of the rows read that the cache gives no identifier for
RowsWithoutUuid ==
    {code \in Range(RowsRead(csvRows, test_mode)) :
        CacheGet(uuid_cache, code) \in {"None", ""}}

KeysWithoutUuid ==
    {CombinationKey(code, zip) : code \in RowsWithoutUuid, zip \in Range(zipFile)}

Identified(code) == code \notin RowsWithoutUuid

\* C24: the rows of the catalog (its first ten in test mode) whose code has
\* no identifier in the cache, missing or empty, are not among the drugs of
\* the run: no request is made for them and the run adds no key of theirs
\* to the checkpoint, while the rows with an identifier are all drugs of the
\* run, in catalog order
C24_RowsWithoutUuidAreDropped ==
    (Running \/ pc \in {"completed", "tripped"}) =>
        /\ drugs = SelectSeq(RowsRead(csvRows, test_mode), Identified)
        /\ \A i \in DOMAIN requested : requested[i].key \notin KeysWithoutUuid
        /\ Range(CompletedOf(progress)) \cap KeysWithoutUuid \subseteq Range(loaded)

C24_Witness ==
    /\ pc = "completed"
    /\ RowsWithoutUuid = {"B", "C"}
    /\ drugs = <<"A", "A">>
    /\ Len(requested) >= 2
    /\ Len(returned) >= 1

\* the ways a run ends without a report: an interrupt, an exception, or
\* main giving up before run_collection
AbortedOutcomes == {"aborted", "interrupted", "killed", "rejected",
                    "no_credentials", "no_catalog"}

AllUnitsOnFile == \A u \in Units : KeyOf(u) \in KeysOnFile

C26_SetupFailureExitsNonZero ==
    /\ pc = "no_catalog" => ExitStatus(pc) # 0
    /\ pc = "no_credentials" => ExitStatus(pc) # 0
    /\ pc = "interrupted" => ExitStatus(pc) = 0

\* both options given with 1 <= batch <= total_batches, or both omitted
ValidBatchArgs(a) ==
    \/ ~a.batch.given /\ ~a.total_batches.given
    \/ /\ a.batch.given
       /\ a.total_batches.given
       /\ 1 <= a.batch.value
       /\ a.batch.value <= a.total_batches.value

\* C28: main goes past its validation only when --batch and --total-batches
\* are both given with 1 <= batch <= total_batches or both omitted; with
\* every other command line (one option alone, the value 0, a batch out of
\* range) it returns before a collector is created
C28_InvalidBatchArgsAreRejected ==
    /\ ~ValidBatchArgs(args) =>
           /\ pc \in {"main", "rejected", "killed", "no_credentials"}
           /\ token = "None"
    /\ pc = "rejected" => (~ValidBatchArgs(args) /\ token = "None")

\* the collector has just been constructed
Constructed == pc \in {"start", "no_catalog"}

\* C29: a collector that has been constructed holds a token and a member
\* identifier that are not empty: a non-empty value of the environment is
\* taken, stripped of blanks and quotes, before the script is looked at,
\* the script's value otherwise, and the constructor fails when neither
\* yields a value
C29_CollectorHasBothCredentials ==
    /\ Constructed =>
           /\ token \notin {"None", ""}
           /\ memberUuid \notin {"None", ""}
           /\ shellEnv.TOKEN # <<>> => token = Text(Clean(shellEnv.TOKEN))
           /\ shellEnv.MEMBERUUID # <<>> =>
                  memberUuid = Text(Clean(shellEnv.MEMBERUUID))
    /\ pc = "no_credentials" => (token = "None" /\ memberUuid = "None")

IsPrefix(s, t) == Len(s) <= Len(t) /\ SubSeq(t, 1, Len(s)) = s

HeaderRows(f) == {i \in DOMAIN f : f[i] = Header}

\* C27: a truthy answer gives one row per entry of its provider list (none
\* without a list or with an empty one) and the rows are appended to the
\* output file; a failed unit appends nothing; within a process the file
\* only grows at its end; and a file that exists holds the header once, as
\* its first row
C27_OutputIsAppendOnly ==
    [][ /\ (pc = "result" /\ Truthy(api_response) /\ pc' # "interrupted") =>
               /\ pc' = "update"
               /\ csv' = csv \o [i \in DOMAIN Pharmacies(api_response) |-> CurrentKey]
        /\ (pc = "result" /\ ~Truthy(api_response)) => csv' = csv
        /\ pc' # "main" => IsPrefix(csv, csv')
        /\ csv' # <<>> => HeaderRows(csv') = {1} ]_vars

\* C30: the sleep between two units, request_delay, keeps the request rate
\* under both documented ceilings, 1/interval <= 20 per second and
\* 3600/interval <= 10,000 per hour (the interval in tenths of a second:
\* 10/interval and 36000/interval), and it is the time that has been slept
\* when the loop turns to the unit after one that sent a request
C30_IntervalRespectsCeilings ==
    /\ 10 <= per_second_limit * RateLimitSleep
    /\ 36000 <= hourly_limit * RateLimitSleep
    /\ (pc = "loop" /\ requested # <<>>) =>
           /\ waited = request_delay
           /\ 10 <= per_second_limit * waited
           /\ 36000 <= hourly_limit * waited

C30_Witness ==
    /\ pc = "loop"
    /\ Len(requested) = 1
    /\ processed_count >= 1
    /\ waited = RateLimitSleep
    /\ RateLimitSleep = 4

\* C31: a timeout makes make_api_request call refresh_token exactly when it
\* is the timeout of the first attempt (no refresh can have succeeded then);
\* a timeout of a later attempt calls no refresh and is followed by the
\* retry_delay sleep, except on the last attempt, which is followed by none
C31_TimeoutRefreshesOnFirstAttemptOnly ==
    [][ (pc = "attempt" /\ httpCount' = httpCount + 1 /\ lastOutcome' = "timeout") =>
            /\ (lastRefresh' # "none") <=>
                   (attempt = 0 /\ ~token_refreshed_this_request)
            /\ refreshCalls' = refreshCalls + (IF attempt = 0 THEN 1 ELSE 0)
            /\ attempt > 0 =>
                   /\ lastSleep' = (IF attempt < max_retries - 1 THEN "retry" ELSE "none")
                   /\ waited' = (IF attempt < max_retries - 1
                                 THEN Min(request_delay, retry_delay) ELSE 0)
                   /\ UNCHANGED credVars ]_vars

C31_Witness ==
    /\ pc = "attempt"
    /\ attempt = 2
    /\ lastOutcome = "timeout"
    /\ lastSleep = "retry"
    /\ lastRefresh = "none"
    /\ refreshCalls = 1
    /\ ~token_refreshed_this_request

\* the units the loops have not passed yet
UnitsLeft ==
    IF LoopDone THEN 0
    ELSE (Len(drugs) - drug_idx) * Len(zip_codes) + (Len(zip_codes) - zip_idx + 1)

\* the steps a run can still take: below the units left, the steps left in
\* the unit at hand (its test, at most max_retries attempts, the handling
\* of the result, the checkpoint update)
StepsLeft ==
    UnitsLeft * (max_retries + 3)
        + (CASE pc = "loop" -> max_retries + 2
             [] pc = "attempt" -> max_retries + 1 - attempt
             [] pc = "result" -> 1
             [] pc = "update" -> 0
             [] OTHER -> 0)

\* C32: every step of a run lowers the number of steps it can still take,
\* a call makes at most max_retries attempts, the run calls
\* make_api_request for at most len(drugs) x len(zip_codes) units, and when
\* no interrupt ends it the run leaves its loops as completed or tripped
C32_RunTerminates ==
    [][ /\ (Running /\ Running' /\ SameRun) =>
               /\ StepsLeft' < StepsLeft
               /\ attempt' <= max_retries
               /\ pc' = "attempt" => attempt' < max_retries
               /\ Len(requested') <= Len(drugs) * Len(zip_codes)
        /\ (Running /\ ~Running' /\ pc' # "interrupted") =>
               pc' \in {"completed", "tripped"} ]_vars

LastN(s, n) == SubSeq(s, Len(s) - n + 1, Len(s))

NoDuplicate(s) == \A i, j \in DOMAIN s : i # j => s[i] # s[j]

\* C35: the checkpoint files a run may find hold no key twice, and after
\* any number of processed and skipped units and of restarts the completed
\* list, in memory and in the file, holds no key twice
C35_CompletedHasNoDuplicate ==
    /\ NoDuplicate(CompletedOf(progress))
    /\ NoDuplicate(CompletedOf(LoadProgress(file)))

C35_Witness ==
    /\ pc = "completed"
    /\ loaded # <<>>
    /\ Len(CompletedOf(progress)) > Len(loaded)
    /\ Len(drugs) = 2
    /\ drugs[1] = drugs[2]
    /\ file = progress

\* C36: in every state, the states after an interrupt or an exception
\* included, a unit of this process that was answered with a non-empty
\* provider list and whose key is in the completed list, in memory or in
\* the checkpoint file, has its rows in the output file: the rows are
\* appended before the key is saved
C36_RowsWrittenBeforeKeySaved ==
    \A k \in withPharmacies :
        (k \in KeysOnFile \/ k \in Range(CompletedOf(progress))) => k \in Range(csv)

C36_Witness ==
    /\ pc = "interrupted"
    /\ \E k \in withPharmacies : k \in KeysOnFile /\ k \in Range(csv)
    /\ Len(returned) >= 2

RequestsOf(u) == {i \in DOMAIN requested : requested[i].d = u.d /\ requested[i].z = u.z}

\* C37: a run that started from an empty checkpoint and ended completed has
\* called make_api_request exactly once for every pair of a drug and a zip
\* code of the loaded lists, len(drugs) x len(zip_codes) calls in all, its
\* total_processed is that number, and no two pairs have the same
\* combination key
C37_CompletedRunCoversEveryPair ==
    (pc = "completed" /\ loaded = <<>>) =>
        /\ \A u \in Units : Cardinality(RequestsOf(u)) = 1
        /\ Len(requested) = Len(drugs) * Len(zip_codes)
        /\ progress.total_processed = Len(drugs) * Len(zip_codes)
        /\ \A u, v \in Units : u # v => KeyOf(u) # KeyOf(v)

\* the keys of the units of a collector's configuration
OwnKeys(c) ==
    { CombinationKey(csvRows[1], zip) :
        zip \in Range(ZipCodesFrom(1, c.cfg.test_mode, c.cfg.states_filter,
                                   c.cfg.batch_info)) }

\* C38: two collectors of different configurations (test mode, states
\* filter, batch) have different checkpoint files, and under every
\* interleaving of their steps the file of each holds what that collector
\* loaded and saved, nothing written by the other, and only keys of that
\* collector's own units
C38_ConcurrentCollectorsKeepApart ==
    \A p, q \in DOMAIN collectors :
        (p # q /\ collectors[p].cfg # collectors[q].cfg) =>
            /\ collectors[p].progress_file # collectors[q].progress_file
            /\ ReadProgressFile(collectors[p].progress_file, progress_files)
                   = collectors[p].completed
            /\ Range(collectors[p].completed) \subseteq OwnKeys(collectors[p])

C38_Witness ==
    /\ pc = "concurrent"
    /\ collectors[1].at = "done"
    /\ collectors[2].at = "done"
    /\ collectors[1].cfg.batch_info = [batch_num |-> 1, total_batches |-> 2]
    /\ collectors[2].cfg.batch_info = [batch_num |-> 2, total_batches |-> 2]
    /\ collectors[1].cfg.states_filter = collectors[2].cfg.states_filter
    /\ collectors[1].cfg.test_mode = collectors[2].cfg.test_mode
    /\ Len(collectors[1].completed) >= 2
    /\ Len(collectors[2].completed) >= 2
    /\ Cardinality(progress_files) = 2

====
